---- MODULE Spec2Model ----
(***************************************************************************)
(* The catalog data model of locallibrary/catalog/models.py: Genre,        *)
(* Language, Author, Book and BookInstance, with the operations every      *)
(* django.db.models.Model subclass exposes (save, full_clean followed by   *)
(* save, delete) and the methods the file defines (Book.clean,             *)
(* Book.display_genre, BookInstance.__str__).                              *)
(*                                                                         *)
(* A table with an automatic primary key is a function from the primary    *)
(* keys that hold a row to the rows.  The BookInstance table, whose primary *)
(* key is the UUID field id, is the set of its rows, and the many-to-many   *)
(* table of Book.genre the set of its <<book, genre>> pairs.                *)
(***************************************************************************)
EXTENDS Integers, Sequences, FiniteSets, TLC

VARIABLES languages, authors, books, genres, book_genre, bookinstances, users, last

vars == <<languages, authors, books, genres, book_genre, bookinstances, users, last>>

\* Python None / SQL NULL of a null=True column.
None == 0

\* ------------------------------------------------------------------ bounds
MaxLanguages == 2
MaxAuthors == 1
MaxBooks == 2
MaxGenres == 4
MaxUuids == 2

LanguageIds == 1..MaxLanguages
AuthorIds == 1..MaxAuthors
BookIds == 1..MaxBooks
GenreIds == 1..MaxGenres
Uuids == 1..MaxUuids

\* DateField values: only their order is read, and two days give every order.
Dates == {1, 2}
NullableDates == Dates \cup {None}

\* Outcomes of an operation.
OK == "ok"
ValidationError == "ValidationError"
IntegrityError == "IntegrityError"
AttributeError == "AttributeError"

\* INSERT or UPDATE of the row with primary key k, and DELETE of it.
Put(table, k, row) == [j \in DOMAIN table \cup {k} |-> IF j = k THEN row ELSE table[j]]
Remove(table, k) == [j \in DOMAIN table \ {k} |-> table[j]]

EmptyTable == <<>>

\* Everything stored.
tables == <<languages, authors, books, genres, book_genre, bookinstances, users>>

\* last describes the operation just performed: what was asked, how it ended.
NoOp == [op |-> "init", pk |-> None, obj |-> [none |-> TRUE], validate |-> FALSE,
         outcome |-> OK]

\* ---------------------------------------------------------------- Language
\* Names are sequences of one-character strings, so that Lower is computed.
UpperCase == <<"A","B","C","D","E","F","G","H","I","J","K","L","M",
               "N","O","P","Q","R","S","T","U","V","W","X","Y","Z">>
LowerCase == <<"a","b","c","d","e","f","g","h","i","j","k","l","m",
               "n","o","p","q","r","s","t","u","v","w","x","y","z">>

LowerChar(c) ==
    IF \E i \in DOMAIN UpperCase : UpperCase[i] = c
    THEN LowerCase[CHOOSE i \in DOMAIN UpperCase : UpperCase[i] = c]
    ELSE c

\* django.db.models.functions.Lower on a name.
Lower(s) == [i \in DOMAIN s |-> LowerChar(s[i])]

LanguageNameInputs ==
    { <<"e","n">>, <<"E","n">>, <<"E","N">>, <<"f","r">>, <<"F","r">> }

\* name = CharField(unique=True): another row holds exactly this name.
LanguageNameTaken(pk, name) ==
    \E k \in DOMAIN languages : k # pk /\ languages[k].name = name

\* Language without the UniqueConstraint on Lower('name').
LanguageLowerTakenNoCheck(pk, name) == FALSE

\* UniqueConstraint(Lower('name')): another row holds this name ignoring case.
LanguageLowerTaken(pk, name) ==
    \E k \in DOMAIN languages : k # pk /\ Lower(languages[k].name) = Lower(name)

\* Language(pk, name) saved: with validate, full_clean() runs first and
\* validate_unique / validate_constraints raise ValidationError; without it
\* the database rejects the INSERT or UPDATE with IntegrityError.
LanguageSave(pk, name, validate) ==
    LET conflict == LanguageNameTaken(pk, name) \/ LanguageLowerTaken(pk, name)
        req == [op |-> "Language.save", pk |-> pk, obj |-> [name |-> name],
                validate |-> validate, outcome |-> OK]
    IN  /\ IF conflict
           THEN /\ languages' = languages
                /\ last' = [req EXCEPT !.outcome =
                               IF validate THEN ValidationError ELSE IntegrityError]
           ELSE /\ languages' = Put(languages, pk, [name |-> name])
                /\ last' = req
        /\ UNCHANGED <<authors, books, genres, book_genre, bookinstances, users>>

\* Book.language is on_delete=SET_NULL.
LanguageDeleteBooks(pk) ==
    [b \in DOMAIN books |->
        IF books[b].language = pk
        THEN [books[b] EXCEPT !.language = None]
        ELSE books[b]]

LanguageDelete(pk) ==
    /\ pk \in DOMAIN languages
    /\ languages' = Remove(languages, pk)
    /\ books' = LanguageDeleteBooks(pk)
    /\ last' = [op |-> "Language.delete", pk |-> pk,
                obj |-> [nulled |-> {b \in DOMAIN books : books[b].language = pk}],
                validate |-> FALSE, outcome |-> OK]
    /\ UNCHANGED <<authors, genres, book_genre, bookinstances, users>>

\* ------------------------------------------------------------------ Author
AuthorRows(births, deaths) ==
    [first_name : {"Ann"}, last_name : {"Lee"},
     date_of_birth : births, date_of_death : deaths]

\* Author defines no clean() and no constraint: a save always persists.
AuthorSave(pk, obj) ==
    /\ authors' = Put(authors, pk, obj)
    /\ last' = [op |-> "Author.save", pk |-> pk, obj |-> obj, validate |-> FALSE,
                outcome |-> OK]
    /\ UNCHANGED <<languages, books, genres, book_genre, bookinstances, users>>

\* Book.author with on_delete=CASCADE in place of SET_NULL.
AuthorDeleteCascade(pk) ==
    [b \in {j \in DOMAIN books : books[j].author # pk} |-> books[b]]

\* Book.author is on_delete=SET_NULL.
AuthorDeleteBooks(pk) ==
    [b \in DOMAIN books |->
        IF books[b].author = pk
        THEN [books[b] EXCEPT !.author = None]
        ELSE books[b]]

AuthorDelete(pk) ==
    /\ pk \in DOMAIN authors
    /\ authors' = Remove(authors, pk)
    /\ books' = AuthorDeleteBooks(pk)
    /\ last' = [op |-> "Author.delete", pk |-> pk,
                obj |-> [nulled |-> {b \in DOMAIN books : books[b].author = pk}],
                validate |-> FALSE, outcome |-> OK]
    /\ UNCHANGED <<languages, genres, book_genre, bookinstances, users>>

\* -------------------------------------------------------------------- Book
DoesNotExist == "DoesNotExist"

BookRows(titles, added, langs) ==
    [title : titles, author : AuthorIds \cup {None}, data_added : added,
     summary : {"s"}, isbn : {"i"}, language : langs]

\* Python truth of an optional value: None is false, a date or a row is true.
Truthy(x) == x # None

\* Book.clean with the comparison the other way round.
CleanRaisesFlipped(obj) ==
    /\ Truthy(obj.author) /\ Truthy(obj.data_added)
    /\ Truthy(authors[obj.author].date_of_birth)
    /\ obj.data_added > authors[obj.author].date_of_birth

\* Book.clean raises ValidationError (obj.author names a stored Author).
CleanRaises(obj) ==
    /\ Truthy(obj.author) /\ Truthy(obj.data_added)
    /\ Truthy(authors[obj.author].date_of_birth)
    /\ obj.data_added < authors[obj.author].date_of_birth

\* A foreign key of obj names no stored row.
AuthorDangling(obj) == obj.author # None /\ obj.author \notin DOMAIN authors
LanguageDangling(obj) == obj.language # None /\ obj.language \notin DOMAIN languages

\* What saving Book obj raises, OK when it persists.  Model.save() is not
\* overridden and does not call clean(): only full_clean(), which model forms
\* and the admin run before save(), does (validate).  full_clean() collects the
\* ValidationError of a foreign key that names no row and then calls clean(),
\* where self.author raises DoesNotExist for such a key; without full_clean()
\* the database rejects the row with IntegrityError.
BookSaveOutcome(obj, validate) ==
    IF validate
    THEN IF AuthorDangling(obj) THEN DoesNotExist
         ELSE IF CleanRaises(obj) \/ LanguageDangling(obj) THEN ValidationError
         ELSE OK
    ELSE IF AuthorDangling(obj) \/ LanguageDangling(obj) THEN IntegrityError
         ELSE OK

BookSave(pk, obj, validate) ==
    LET outcome == BookSaveOutcome(obj, validate)
    IN  /\ books' = IF outcome = OK THEN Put(books, pk, obj) ELSE books
        /\ last' = [op |-> "Book.save", pk |-> pk, obj |-> obj, validate |-> validate,
                    outcome |-> outcome]
        /\ UNCHANGED <<languages, authors, genres, book_genre, bookinstances, users>>

\* BookInstance.book with on_delete=CASCADE in place of SET_NULL.
BookDeleteInstancesCascade(pk) == {i \in bookinstances : i.book # pk}

\* BookInstance.book is on_delete=SET_NULL.
BookDeleteInstances(pk) ==
    {IF i.book = pk THEN [i EXCEPT !.book = None] ELSE i : i \in bookinstances}

\* The rows of the genre many-to-many table go with the book.
BookDelete(pk) ==
    /\ pk \in DOMAIN books
    /\ books' = Remove(books, pk)
    /\ bookinstances' = BookDeleteInstances(pk)
    /\ book_genre' = {r \in book_genre : r[1] # pk}
    /\ last' = [op |-> "Book.delete", pk |-> pk,
                obj |-> [nulled |-> {i \in bookinstances : i.book = pk}],
                validate |-> FALSE, outcome |-> OK]
    /\ UNCHANGED <<languages, authors, genres, users>>

\* ------------------------------------------------------------------- Genre
GenreNames == <<"A", "B", "C", "D", "E", "F">>

GenreSave(pk, name) ==
    /\ genres' = Put(genres, pk, [name |-> name])
    /\ last' = [op |-> "Genre.save", pk |-> pk, obj |-> [name |-> name],
                validate |-> FALSE, outcome |-> OK]
    /\ UNCHANGED <<languages, authors, books, book_genre, bookinstances, users>>

\* The rows of the many-to-many table go with the genre.
GenreDelete(pk) ==
    /\ pk \in DOMAIN genres
    /\ genres' = Remove(genres, pk)
    /\ book_genre' = {r \in book_genre : r[2] # pk}
    /\ last' = [op |-> "Genre.delete", pk |-> pk, obj |-> [none |-> TRUE],
                validate |-> FALSE, outcome |-> OK]
    /\ UNCHANGED <<languages, authors, books, bookinstances, users>>

\* book.genre.add(genre) and book.genre.remove(genre).
BookGenreAdd(b, g) ==
    /\ b \in DOMAIN books /\ g \in DOMAIN genres
    /\ book_genre' = book_genre \cup {<<b, g>>}
    /\ last' = [op |-> "Book.genre.add", pk |-> b, obj |-> [genre |-> g],
                validate |-> FALSE, outcome |-> OK]
    /\ UNCHANGED <<languages, authors, books, genres, bookinstances, users>>

BookGenreRemove(b, g) ==
    /\ <<b, g>> \in book_genre
    /\ book_genre' = book_genre \ {<<b, g>>}
    /\ last' = [op |-> "Book.genre.remove", pk |-> b, obj |-> [genre |-> g],
                validate |-> FALSE, outcome |-> OK]
    /\ UNCHANGED <<languages, authors, books, genres, bookinstances, users>>

\* self.genre.all(): the genres of book b.  Genre declares no ordering, so the
\* database returns them in an order of its choosing: any of these sequences.
GenreAll(b) ==
    LET S == {r[2] : r \in {q \in book_genre : q[1] = b}}
    IN  {f \in [1..Cardinality(S) -> S] : \A i, j \in DOMAIN f : i # j => f[i] # f[j]}

\* ', '.join(names)
RECURSIVE Join(_)
Join(names) ==
    IF names = <<>> THEN ""
    ELSE IF Len(names) = 1 THEN names[1]
    ELSE names[1] \o ", " \o Join(Tail(names))

\* rows[:4]
FirstFour(rows) == SubSeq(rows, 1, IF Len(rows) < 4 THEN Len(rows) ELSE 4)

\* rows[:3]
FirstThree(rows) == SubSeq(rows, 1, IF Len(rows) < 3 THEN Len(rows) ELSE 3)

\* Book.display_genre on the rows that self.genre.all() returned.
DisplayGenre(rows) ==
    LET slice == FirstThree(rows)
    IN  Join([i \in DOMAIN slice |-> genres[slice[i]].name])

BookDisplayGenre(b, rows) ==
    /\ b \in DOMAIN books
    /\ rows \in GenreAll(b)
    /\ last' = [op |-> "Book.display_genre", pk |-> b,
                obj |-> [all |-> rows, result |-> DisplayGenre(rows)],
                validate |-> FALSE, outcome |-> OK]
    /\ UNCHANGED tables

\* -------------------------------------------------------------------- User
\* settings.AUTH_USER_MODEL, the target of BookInstance.borrower: a user is
\* registered, and deleted with borrower on_delete=SET_NULL.
UserSave(u) ==
    /\ users' = users \cup {u}
    /\ last' = [op |-> "User.save", pk |-> u, obj |-> [none |-> TRUE],
                validate |-> FALSE, outcome |-> OK]
    /\ UNCHANGED <<languages, authors, books, genres, book_genre, bookinstances>>

UserDeleteInstances(u) ==
    {IF i.borrower = u THEN [i EXCEPT !.borrower = None] ELSE i : i \in bookinstances}

UserDelete(u) ==
    /\ u \in users
    /\ users' = users \ {u}
    /\ bookinstances' = UserDeleteInstances(u)
    /\ last' = [op |-> "User.delete", pk |-> u,
                obj |-> [nulled |-> {i \in bookinstances : i.borrower = u}],
                validate |-> FALSE, outcome |-> OK]
    /\ UNCHANGED <<languages, authors, books, genres, book_genre>>

\* ------------------------------------------------------------ BookInstance
\* The stored values of LOAN_STATUS.
LOAN_STATUS == {"m", "o", "a", "r"}

\* The fields of a BookInstance other than id.
InstanceFields(bookrefs, dues, borrowers, statuses) ==
    [book : bookrefs, imprint : {"imp"}, due_back : dues, borrower : borrowers,
     status : statuses]

InstanceRow(id, f) ==
    [id |-> id, book |-> f.book, imprint |-> f.imprint, due_back |-> f.due_back,
     borrower |-> f.borrower, status |-> f.status]

WithId(id) == {i \in bookinstances : i.id = id}

\* clean_fields() on status: blank=True lets the empty string through without
\* looking at choices; any other value must be one of the choices.
StatusInvalid(status) == status # "" /\ status \notin LOAN_STATUS

InstanceDangling(f) ==
    \/ f.book # None /\ f.book \notin DOMAIN books
    \/ f.borrower # None /\ f.borrower \notin users

\* What saving a BookInstance raises, OK when it persists.  loaded is the id
\* of the row the instance was read from, None for a new instance; forced says
\* whether save() of a new instance issues the INSERT alone, without trying an
\* UPDATE first (it does when the primary key has a default, as here; an
\* UPDATE is tried first by framework versions before that rule).
InstanceSaveOutcome(loaded, id, f, validate, forced) ==
    IF validate /\ (\/ StatusInvalid(f.status)
                    \/ InstanceDangling(f)
                    \/ (loaded = None /\ WithId(id) # {}))
    THEN ValidationError
    ELSE IF InstanceDangling(f) \/ (loaded = None /\ forced /\ WithId(id) # {})
    THEN IntegrityError
    ELSE OK

\* A save that always INSERTs, into a table without the primary key.
InstancesAfterInsertOnly(loaded, id, row) == bookinstances \cup {row}

\* A save that rewrites the identifier of the row the instance was read from.
InstancesAfterRekey(loaded, id, row) ==
    ((bookinstances \ WithId(loaded)) \ WithId(id)) \cup {row}

\* The table after a successful save: UPDATE ... WHERE id = id of the row that
\* holds the key, INSERT when no row holds it.
InstancesAfterSave(loaded, id, row) == (bookinstances \ WithId(id)) \cup {row}

\* id is the caller's when supplied, else the value that default=uuid.uuid4
\* draws: any value at all.  A loaded instance is one read from a stored row.
BookInstanceSave(loaded, supplied, id, f, validate, forced) ==
    LET outcome == InstanceSaveOutcome(loaded, id, f, validate, forced)
    IN  /\ loaded = None \/ WithId(loaded) # {}
        /\ bookinstances' = IF outcome = OK
                            THEN InstancesAfterSave(loaded, id, InstanceRow(id, f))
                            ELSE bookinstances
        /\ last' = [op |-> "BookInstance.save", pk |-> id,
                    obj |-> [loaded |-> loaded, supplied |-> supplied],
                    validate |-> validate, outcome |-> outcome]
        /\ UNCHANGED <<languages, authors, books, genres, book_genre, users>>

BookInstanceDelete(id) ==
    /\ WithId(id) # {}
    /\ bookinstances' = bookinstances \ WithId(id)
    /\ last' = [op |-> "BookInstance.delete", pk |-> id, obj |-> [none |-> TRUE],
                validate |-> FALSE, outcome |-> OK]
    /\ UNCHANGED <<languages, authors, books, genres, book_genre, users>>

\* f'{self.id} ({self.book.title})': self.book is None when book is null, and
\* None has no attribute title.
StrRaises(i) == i.book = None

BookInstanceStr(id) ==
    /\ WithId(id) # {}
    /\ last' = [op |-> "BookInstance.__str__", pk |-> id, obj |-> [none |-> TRUE],
                validate |-> FALSE,
                outcome |-> IF \E i \in WithId(id) : StrRaises(i)
                            THEN AttributeError ELSE OK]
    /\ UNCHANGED tables

\* ------------------------------------------------------------------- Init
Init ==
    /\ languages = EmptyTable
    /\ authors = EmptyTable
    /\ books = EmptyTable
    /\ genres = EmptyTable
    /\ book_genre = {}
    /\ bookinstances = {}
    /\ users = {}
    /\ last = NoOp

\* ----------------------------------------------------- Language operations
NextLanguage ==
    \/ \E pk \in LanguageIds, name \in LanguageNameInputs, validate \in BOOLEAN :
          LanguageSave(pk, name, validate)
    \/ \E pk \in LanguageIds : LanguageDelete(pk)

SpecLanguage == Init /\ [][NextLanguage]_vars

\* -------------------------------------------- Author and Book operations
\* Author and Book created, changed and deleted, with Book saved through
\* save() alone or through full_clean() and save().
NextCatalog(validates) ==
    \/ \E pk \in AuthorIds, obj \in AuthorRows(NullableDates, {None}) :
          AuthorSave(pk, obj)
    \/ \E pk \in AuthorIds : AuthorDelete(pk)
    \/ \E pk \in BookIds, obj \in BookRows({"T1"}, NullableDates, {None}),
          validate \in validates :
          BookSave(pk, obj, validate)
    \/ \E pk \in BookIds : BookDelete(pk)

Next == NextCatalog(BOOLEAN)

Spec == Init /\ [][Next]_vars

\* The same operations when every Book is saved through a model form.
NextForms == NextCatalog({TRUE})

SpecForms == Init /\ [][NextForms]_vars

\* Deletion of the rows a Book refers to.
NextDelete ==
    \/ \E pk \in AuthorIds, obj \in AuthorRows({None}, {None}) : AuthorSave(pk, obj)
    \/ \E pk \in AuthorIds : AuthorDelete(pk)
    \/ LanguageSave(1, <<"e","n">>, TRUE)
    \/ LanguageDelete(1)
    \/ \E pk \in BookIds, obj \in BookRows({"T1"}, {None, 1}, {None, 1}) :
          BookSave(pk, obj, TRUE)
    \/ \E pk \in BookIds : BookDelete(pk)

SpecDelete == Init /\ [][NextDelete]_vars

\* ------------------------------------------------- BookInstance operations
\* A copy in maintenance, a copy on loan and a copy on the shelf.
InstanceInputs ==
    { [book |-> None, imprint |-> "imp", due_back |-> None, borrower |-> None,
       status |-> "m"],
      [book |-> 1, imprint |-> "imp", due_back |-> 1, borrower |-> 1, status |-> "o"],
      [book |-> 1, imprint |-> "imp", due_back |-> None, borrower |-> None,
       status |-> "a"] }

NextInstance ==
    \/ BookSave(1, CHOOSE b \in BookRows({"T1"}, {None}, {None}) : b.author = None, TRUE)
    \/ BookDelete(1)
    \/ UserSave(1)
    \/ UserDelete(1)
    \/ \E loaded \in Uuids \cup {None}, supplied \in BOOLEAN, id \in Uuids,
          f \in InstanceInputs, validate \in BOOLEAN, forced \in BOOLEAN :
          /\ loaded # None => supplied
          /\ validate => forced
          /\ BookInstanceSave(loaded, supplied, id, f, validate, forced)
    \/ \E id \in Uuids : BookInstanceDelete(id)
    \/ \E id \in Uuids : BookInstanceStr(id)

SpecInstance == Init /\ [][NextInstance]_vars

\* BookInstances saved through a model form, with every status a form can post.
NextStatus ==
    \/ \E loaded \in Uuids \cup {None}, supplied \in BOOLEAN, id \in Uuids,
          f \in InstanceFields({None}, {None}, {None}, LOAN_STATUS \cup {"", "x"}) :
          /\ loaded # None => supplied
          /\ BookInstanceSave(loaded, supplied, id, f, TRUE, TRUE)
    \/ \E id \in Uuids : BookInstanceDelete(id)

SpecStatus == Init /\ [][NextStatus]_vars

\* --------------------------------------------------- Genres of one Book
NextGenre ==
    \/ BookSave(1, CHOOSE b \in BookRows({"T1"}, {None}, {None}) : b.author = None, TRUE)
    \/ BookDelete(1)
    \/ \E pk \in GenreIds : \E name \in {GenreNames[pk], GenreNames[1]} :
          GenreSave(pk, name)
    \/ \E pk \in GenreIds : GenreDelete(pk)
    \/ \E g \in GenreIds : BookGenreAdd(1, g)
    \/ \E g \in GenreIds : BookGenreRemove(1, g)
    \/ \E rows \in GenreAll(1) : BookDisplayGenre(1, rows)

SpecGenre == Init /\ [][NextGenre]_vars

\* ================================================================== claims

\* C1: every stored Book whose author has a birth date and which has an
\* added-date has an added-date on or after that birth date.
C1_AddedNotBeforeBirth ==
    \A b \in DOMAIN books :
        LET a == books[b].author
        IN  (a \in DOMAIN authors /\ books[b].data_added # None
                /\ authors[a].date_of_birth # None)
            => books[b].data_added >= authors[a].date_of_birth

\* The Book being saved has a stored author with a birth date, and an
\* added-date before it.
AddedBeforeBirth(obj) ==
    /\ obj.author \in DOMAIN authors
    /\ obj.data_added # None
    /\ authors[obj.author].date_of_birth # None
    /\ obj.data_added < authors[obj.author].date_of_birth

EqualIgnoringCase(m, n) == Lower(m) = Lower(n)

\* C3: no two stored Languages have names equal ignoring case, and a save of a
\* Language whose name equals another stored Language's name ignoring case
\* fails and leaves the stored Languages unchanged.
C3_CaseInsensitiveUnique ==
    /\ [](\A j, k \in DOMAIN languages :
             j # k => ~EqualIgnoringCase(languages[j].name, languages[k].name))
    /\ [][(/\ last'.op = "Language.save"
           /\ \E k \in DOMAIN languages \ {last'.pk} :
                 EqualIgnoringCase(languages[k].name, last'.obj.name))
          => (last'.outcome # OK /\ languages' = languages)]_vars

\* C3 witness: "En" was refused by the database because "en" (or another
\* spelling that differs only in case) is stored.
C3_Witness ==
    /\ last.op = "Language.save" /\ last.outcome = IntegrityError
    /\ \E k \in DOMAIN languages \ {last.pk} :
          /\ languages[k].name # last.obj.name
          /\ EqualIgnoringCase(languages[k].name, last.obj.name)

\* C5: deleting an Author or a Language deletes no Book; the Books that
\* referred to it keep every field but that reference, which becomes None, and
\* the other Books are unchanged.
C5_DeleteNullsReference ==
    [][/\ last'.op = "Author.delete" =>
            /\ DOMAIN books' = DOMAIN books
            /\ \A b \in DOMAIN books :
                  /\ books'[b].author = IF books[b].author = last'.pk THEN None
                                        ELSE books[b].author
                  /\ books'[b].language = books[b].language
                  /\ books'[b].title = books[b].title
                  /\ books'[b].data_added = books[b].data_added
                  /\ books'[b].summary = books[b].summary
                  /\ books'[b].isbn = books[b].isbn
       /\ last'.op = "Language.delete" =>
            /\ DOMAIN books' = DOMAIN books
            /\ \A b \in DOMAIN books :
                  /\ books'[b].language = IF books[b].language = last'.pk THEN None
                                          ELSE books[b].language
                  /\ books'[b].author = books[b].author
                  /\ books'[b].title = books[b].title
                  /\ books'[b].data_added = books[b].data_added
                  /\ books'[b].summary = books[b].summary
                  /\ books'[b].isbn = books[b].isbn
       /\ last'.op \in {"Author.delete", "Language.delete"} => book_genre' = book_genre]_vars

\* C5 witness: an Author was deleted; a Book that referred to it is stored with
\* no author and its language kept, beside a Book that did not refer to it.
C5_Witness ==
    /\ last.op = "Author.delete"
    /\ \E b \in last.obj.nulled :
          b \in DOMAIN books /\ books[b].author = None /\ books[b].language # None
    /\ DOMAIN books \ last.obj.nulled # {}

\* C4: every stored BookInstance has an identifier, and no two stored
\* BookInstances have the same identifier, whether the identifier was supplied
\* or drawn by the default.
C4_IdentifierUnique ==
    /\ \A i \in bookinstances : i.id # None
    /\ \A i, j \in bookinstances : i.id = j.id => i = j

\* C4 witness: two BookInstances are stored, the last one created with no
\* identifier supplied.
C4_Witness ==
    /\ last.op = "BookInstance.save" /\ last.outcome = OK
    /\ last.obj.loaded = None /\ ~last.obj.supplied
    /\ Cardinality(bookinstances) >= 2

\* C6: deleting a Book deletes no BookInstance; the BookInstances that referred
\* to it keep every field but book, which becomes None.
C6_BookDeleteNullsReference ==
    [][last'.op = "Book.delete" =>
          /\ Cardinality(bookinstances') = Cardinality(bookinstances)
          /\ \A i \in bookinstances :
                \E j \in bookinstances' :
                    /\ j.id = i.id
                    /\ j.book = IF i.book = last'.pk THEN None ELSE i.book
                    /\ j.imprint = i.imprint
                    /\ j.due_back = i.due_back
                    /\ j.borrower = i.borrower
                    /\ j.status = i.status]_vars

\* C6 witness: a Book was deleted while a BookInstance on loan referred to it,
\* and that BookInstance is stored with no book and its loan kept.
C6_Witness ==
    /\ last.op = "Book.delete"
    /\ \E i \in last.obj.nulled :
          /\ i.status = "o" /\ i.borrower # None /\ i.due_back # None
          /\ [i EXCEPT !.book = None] \in bookinstances

\* The result the claim gives for the genres rows of a Book, in their order.
FirstThreeJoined(rows) ==
    LET name(i) == genres[rows[i]].name
    IN  CASE Len(rows) = 0 -> ""
          [] Len(rows) = 1 -> name(1)
          [] Len(rows) = 2 -> name(1) \o ", " \o name(2)
          [] OTHER -> name(1) \o ", " \o name(2) \o ", " \o name(3)

\* C7: display_genre returns the names of the first three genres of the Book,
\* all of them when there are fewer, joined by ", " in their order: "A, B, C"
\* for the genres A, B, C, D.  It changes no table.
C7_DisplayGenre ==
    /\ [](last.op = "Book.display_genre" =>
             /\ last.obj.result = FirstThreeJoined(last.obj.all)
             /\ [i \in DOMAIN last.obj.all |-> genres[last.obj.all[i]].name]
                   = <<"A", "B", "C", "D">> => last.obj.result = "A, B, C")
    /\ [][last'.op = "Book.display_genre" => UNCHANGED tables]_vars

\* C7 witness: display_genre has returned "A, B, C" for the genres A, B, C, D.
C7_Witness ==
    /\ last.op = "Book.display_genre"
    /\ [i \in DOMAIN last.obj.all |-> genres[last.obj.all[i]].name]
          = <<"A", "B", "C", "D">>
    /\ last.obj.result = "A, B, C"

\* C8: the status of every stored BookInstance is one of Maintenance, On loan,
\* Available and Reserved.
C8_StatusIsAChoice == \A i \in bookinstances : i.status \in LOAN_STATUS

\* C9: the identifier of a stored BookInstance stays the identifier of a
\* stored BookInstance until that BookInstance is deleted: no save, and no
\* deletion of a Book or a borrower, changes or frees it.
C9_IdentifierImmutable ==
    [][\A i \in bookinstances :
          \/ last'.op = "BookInstance.delete" /\ last'.pk = i.id
          \/ \E j \in bookinstances' : j.id = i.id]_vars

\* C9 witness: an instance read from one row was saved under another
\* identifier, and both identifiers are stored.
C9_Witness ==
    /\ last.op = "BookInstance.save" /\ last.outcome = OK
    /\ last.obj.loaded # None /\ last.obj.loaded # last.pk
    /\ WithId(last.obj.loaded) # {} /\ WithId(last.pk) # {}

\* C10: the display string of every stored BookInstance is computed without
\* error.
C10_StrSucceeds == last.op = "BookInstance.__str__" => last.outcome = OK
====
